---- MODULE Spec2Model ----
(***************************************************************************)
(* A model of sat_app.py: the catalog fetch (get_tle_data), the track      *)
(* computation (calculate_satellite_positions) and the Streamlit script    *)
(* that is rerun top to bottom on every interaction.                       *)
(*                                                                         *)
(* Strings are sequences of one-character strings.  Python's 0-based       *)
(* index k is position k+1 of a sequence.  An optional value (Python's     *)
(* None or a value) is a sequence of length 0 or 1.                        *)
(***************************************************************************)
EXTENDS Integers, Sequences, FiniteSets, TLC

VARIABLES
    response,       \* text of the HTTP response handed to get_tle_data
    fetched,        \* <<>> or <<list>>: what a direct get_tle_data call returned
    session_state,  \* st.session_state: a function whose domain may hold "satellites"
    fetch_calls,    \* number of get_tle_data calls made in this session
    inputs,         \* the widget values of the latest script run
    satellite,      \* the script's local `satellite`: [bound, value]
    errors,         \* the st.error messages of the latest script run
    call,           \* <<>> or <<args>>: the latest calculate_satellite_positions call
    result,         \* what that call did: [status, value, computed]
    outcome,        \* how the latest script run ended
    duration,       \* <<>> or <<n>>: the "Total tracking duration" the latest run wrote
    used_cache      \* whether some run found 'satellites' already in the session

vars == <<response, fetched, session_state, fetch_calls, inputs,
          satellite, errors, call, result, outcome, duration, used_cache>>

(***************************************************************************)
(* Bounds of the model.                                                    *)
(***************************************************************************)
MaxLines == 6       \* lines of a fetched text
MaxTimes == 3       \* instants of a direct calculate_satellite_positions call
MaxInstant == 2     \* instants are 0..MaxInstant seconds
MaxFetches == 3     \* get_tle_data calls of one session
MaxSamples == 3     \* largest num_samples tried (the widget allows up to 50)
MaxInterval == 2    \* largest time_interval tried (the widget allows up to 3600)
MaxNow == 1         \* datetime.utcnow() is 0..MaxNow seconds
AngleSteps == 4     \* ephem angles are multiples of pi/AngleSteps radians

(***************************************************************************)
(* Python string operations used by get_tle_data and the script.           *)
(***************************************************************************)
IsSpace(c) == c \in {" ", "\n", "\r", "\t"}

RECURSIVE LStrip(_)
LStrip(s) ==
    IF s = <<>> THEN s
    ELSE IF IsSpace(Head(s)) THEN LStrip(Tail(s)) ELSE s

RECURSIVE RStrip(_)
RStrip(s) ==
    IF s = <<>> THEN s
    ELSE IF IsSpace(s[Len(s)]) THEN RStrip(SubSeq(s, 1, Len(s) - 1)) ELSE s

\* str.strip(): leading and trailing whitespace removed
Strip(s) == RStrip(LStrip(s))

\* str.split(sep) for a one-character sep: always at least one piece
RECURSIVE SplitFrom(_, _, _, _)
SplitFrom(s, sep, piece, pieces) ==
    IF s = <<>> THEN Append(pieces, piece)
    ELSE IF Head(s) = sep
         THEN SplitFrom(Tail(s), sep, <<>>, Append(pieces, piece))
         ELSE SplitFrom(Tail(s), sep, Append(piece, Head(s)), pieces)

Split(s, sep) == SplitFrom(s, sep, <<>>, <<>>)

\* s[a:b] for 0 <= a, 0 <= b: both ends clipped to the length
Slice(s, a, b) ==
    LET lo == IF a < Len(s) THEN a ELSE Len(s)
        hi == IF b < Len(s) THEN b ELSE Len(s)
    IN  IF lo >= hi THEN <<>> ELSE SubSeq(s, lo + 1, hi)

(***************************************************************************)
(* get_tle_data                                                            *)
(***************************************************************************)
\* response.text.strip().split('\n')
TleLines(text) == Split(Strip(text), "\n")

\* line1[2:7]
NoradIdWrong(line1) == Slice(line1, 3, 7)
NoradId(line1) == Slice(line1, 2, 7)

\* the dict appended for the group that starts at 0-based index i
RecordMisaligned(tle_data, i) ==
    [name |-> Strip(tle_data[i + 1]),
     norad_id |-> NoradId(tle_data[i + 3]),
     line1 |-> tle_data[i + 3],
     line2 |-> tle_data[i + 2]]
Record(tle_data, i) ==
    [name |-> Strip(tle_data[i + 1]),
     norad_id |-> NoradId(tle_data[i + 2]),
     line1 |-> tle_data[i + 2],
     line2 |-> tle_data[i + 3]]

\* for i in range(0, len(tle_data), 3): if i + 2 < len(tle_data): append
RECURSIVE GroupLoop(_, _, _)
GroupLoop(tle_data, i, satellites) ==
    IF i >= Len(tle_data) THEN satellites
    ELSE IF i + 2 < Len(tle_data)
         THEN GroupLoop(tle_data, i + 3, Append(satellites, Record(tle_data, i)))
         ELSE GroupLoop(tle_data, i + 3, satellites)

get_tle_data(text) == GroupLoop(TleLines(text), 0, <<>>)

(***************************************************************************)
(* Texts a catalog source can answer with.                                 *)
(***************************************************************************)
NameA == <<" ", "I", "S", "S", " ">>
NameB == <<"S", "A", "T", "-", "B">>
Line1A == <<"1", " ", "2", "5", "5", "4", "4", "U", " ", "1">>
Line1AltSum == <<"1", " ", "2", "5", "5", "4", "4", "U", " ", "7">>
Line2A == <<"2", " ", "2", "5", "5", "4", "4", " ", "5", "7">>
Line1B == <<"1", " ", "4", "0", "0", "6", "9", "U", " ", "0">>
Line2B == <<"2", " ", "4", "0", "0", "6", "9", " ", "9", "0">>

LineSet == {NameA, Line1A, Line1AltSum, Line2A}
Pads == {<<>>, <<"\n">>}

RECURSIVE JoinLines(_)
JoinLines(ls) ==
    IF ls = <<>> THEN <<>>
    ELSE IF Len(ls) = 1 THEN ls[1]
    ELSE ls[1] \o <<"\n">> \o JoinLines(Tail(ls))

LineSeqs == UNION {[1..n -> LineSet] : n \in 0..MaxLines}
Texts == {lead \o JoinLines(ls) \o trail : ls \in LineSeqs, lead \in Pads, trail \in Pads}

NoInputs == [method |-> "Name", norad_input |-> <<>>, index |-> 0, pressed |-> FALSE,
             num_samples |-> 2, time_interval |-> 1, current_time |-> 0]
NoResult == [status |-> "none", value |-> <<>>, computed |-> 0]
Unbound == [bound |-> FALSE, value |-> <<>>]

AppInit ==
    /\ session_state = <<>>
    /\ fetch_calls = 0
    /\ inputs = NoInputs
    /\ satellite = Unbound
    /\ errors = {}
    /\ call = <<>>
    /\ result = NoResult
    /\ outcome = "none"
    /\ duration = <<>>
    /\ used_cache = FALSE

AppUnchanged ==
    UNCHANGED <<session_state, fetch_calls, inputs, satellite, errors,
                call, result, outcome, duration, used_cache>>

(***************************************************************************)
(* SpecFetch: get_tle_data applied to every text of Texts.                 *)
(***************************************************************************)
FetchInit ==
    /\ response \in Texts
    /\ fetched = <<>>
    /\ AppInit

GetTleData ==
    /\ fetched = <<>>
    /\ fetched' = <<get_tle_data(response)>>
    /\ UNCHANGED response
    /\ AppUnchanged

SpecFetch == FetchInit /\ [][GetTleData]_vars

(***************************************************************************)
(* calculate_satellite_positions                                           *)
(*                                                                         *)
(* ephem is an external library.  Its outcomes are inputs of the model:    *)
(* fail_at = 0 makes readtle raise, fail_at = k makes the k-th             *)
(* satellite.compute raise, a larger fail_at lets every step succeed.      *)
(* compute sets the body's sublat and sublong from its element lines and   *)
(* the observer's date, as the library documents; the value itself is      *)
(* an arbitrary fixed function of the two.                                 *)
(***************************************************************************)
DigitValue(c) ==
    CASE c = "0" -> 0 [] c = "1" -> 1 [] c = "2" -> 2 [] c = "3" -> 3
      [] c = "4" -> 4 [] c = "5" -> 5 [] c = "6" -> 6 [] c = "7" -> 7
      [] c = "8" -> 8 [] c = "9" -> 9 [] OTHER -> 0

RECURSIVE DigitSum(_)
DigitSum(s) == IF s = <<>> THEN 0 ELSE DigitValue(Head(s)) + DigitSum(Tail(s))

ElementCode(body) == DigitSum(body.line1) + 3 * DigitSum(body.line2)

EphemSublat(body, date) ==
    ((ElementCode(body) + date) % (2 * (AngleSteps \div 2) + 1)) - (AngleSteps \div 2)

EphemSublong(body, date) ==
    ((ElementCode(body) + 2 * date) % (2 * AngleSteps + 1)) - AngleSteps

\* np.degrees of an angle of a * pi/AngleSteps radians
NpDegrees(a) == (a * 180) \div AngleSteps

\* observer = ephem.Observer(); observer.lat = ...; observer.lon = ...
NewObserver(observer_lat, observer_lon, now) ==
    [lat |-> observer_lat, lon |-> observer_lon, date |-> now]

\* satellite = ephem.readtle(sat['name'], sat['line1'], sat['line2'])
ReadTle(sat) ==
    [name |-> sat.name, line1 |-> sat.line1, line2 |-> sat.line2,
     computed |-> FALSE, sublat |-> 0, sublong |-> 0]

\* observer.date = time
SetDateStale(observer, time) == observer
SetDate(observer, time) == [observer EXCEPT !.date = time]

\* satellite.compute(observer)
Compute(body, observer) ==
    [body EXCEPT !.computed = TRUE,
                 !.sublat = EphemSublat(body, observer.date),
                 !.sublong = EphemSublong(body, observer.date)]

\* positions.append({'time': time, 'lat': lat, 'lon': lon})
PrependPosition(positions, time, body) ==
    <<[time |-> time, lat |-> NpDegrees(body.sublat), lon |-> NpDegrees(body.sublong)]>>
        \o positions
AppendPosition(positions, time, body) ==
    Append(positions,
           [time |-> time, lat |-> NpDegrees(body.sublat), lon |-> NpDegrees(body.sublong)])

\* an exception raised inside the loop leaves the function: nothing is returned
ComputeRaisesPartial(st) ==
    [status |-> "returned", value |-> <<st.positions>>, computed |-> st.computed + 1]
ComputeRaises(st) ==
    [status |-> "ComputeError", value |-> <<>>, computed |-> st.computed + 1]

\* for time in times: ...; return positions
RECURSIVE TimesLoop(_, _, _, _)
TimesLoop(st, times, i, fail_at) ==
    IF i > Len(times)
    THEN [status |-> "returned", value |-> <<st.positions>>, computed |-> st.computed]
    ELSE LET observer == SetDate(st.observer, times[i])
         IN  IF fail_at = i
             THEN ComputeRaises(st)
             ELSE LET body == Compute(st.satellite, observer)
                  IN  TimesLoop([observer |-> observer,
                                 satellite |-> body,
                                 positions |-> AppendPosition(st.positions, times[i], body),
                                 computed |-> st.computed + 1],
                                times, i + 1, fail_at)

\* sat is <<>> (None) or <<record>>
calculate_satellite_positions(sat, observer_lat, observer_lon, times, now, fail_at) ==
    IF sat = <<>>
    THEN [status |-> "TypeError", value |-> <<>>, computed |-> 0]
    ELSE IF fail_at = 0
    THEN [status |-> "ValueError", value |-> <<>>, computed |-> 0]
    ELSE TimesLoop([observer |-> NewObserver(observer_lat, observer_lon, now),
                    satellite |-> ReadTle(sat[1]),
                    positions |-> <<>>,
                    computed |-> 0],
                   times, 1, fail_at)

(***************************************************************************)
(* SpecCalc: calculate_satellite_positions applied to every record of a    *)
(* two-satellite catalog (and to None), every list of up to MaxTimes       *)
(* instants in any order, and every place a step of ephem can fail.        *)
(***************************************************************************)
TextAB == JoinLines(<<NameA, Line1A, Line2A, NameB, Line1B, Line2B>>)
CatalogAB == get_tle_data(TextAB)

Instants == 0..MaxInstant
TimeLists == UNION {[1..n -> Instants] : n \in 0..MaxTimes}

CalcArgs ==
    [sat : {<<>>} \cup {<<CatalogAB[k]>> : k \in 1..Len(CatalogAB)},
     observer_lat : {28},
     observer_lon : {91},
     times : TimeLists,
     now : {0},
     fail_at : 0..(MaxTimes + 1)]

CalcInit ==
    /\ call \in {<<a>> : a \in CalcArgs}
    /\ result = NoResult
    /\ response = <<>>
    /\ fetched = <<>>
    /\ session_state = <<>>
    /\ fetch_calls = 0
    /\ inputs = NoInputs
    /\ satellite = Unbound
    /\ errors = {}
    /\ outcome = "none"
    /\ duration = <<>>
    /\ used_cache = FALSE

Calculate ==
    /\ result.status = "none"
    /\ result' = calculate_satellite_positions(call[1].sat, call[1].observer_lat,
                      call[1].observer_lon, call[1].times, call[1].now, call[1].fail_at)
    /\ UNCHANGED <<response, fetched, session_state, fetch_calls, inputs,
                   satellite, errors, call, outcome, duration, used_cache>>

SpecCalc == CalcInit /\ [][Calculate]_vars

(***************************************************************************)
(* The Streamlit script.  Every interaction reruns it from the top in a    *)
(* fresh namespace; only st.session_state lives on between runs.           *)
(***************************************************************************)
\* if 'satellites' not in st.session_state
NeedsFetchAlways(ss) == TRUE
NeedsFetch(ss) == "satellites" \notin DOMAIN ss

\* st.session_state.satellites = get_tle_data(); fetch is <<>> when
\* requests.get raises, <<text>> when it answers
FetchStep(ss, fetch) ==
    IF ~NeedsFetch(ss) THEN [called |-> FALSE, raised |-> FALSE, ss |-> ss]
    ELSE IF fetch = <<>> THEN [called |-> TRUE, raised |-> TRUE, ss |-> ss]
    ELSE [called |-> TRUE, raised |-> FALSE,
          ss |-> [satellites |-> get_tle_data(fetch[1])]]

\* next(sat for sat in satellites if pred(sat)), as <<>> or <<sat>>
RECURSIVE FirstByName(_, _)
FirstByName(satellites, name) ==
    IF satellites = <<>> THEN <<>>
    ELSE IF Head(satellites).name = name THEN <<Head(satellites)>>
    ELSE FirstByName(Tail(satellites), name)

RECURSIVE FirstByNorad(_, _)
FirstByNorad(satellites, norad_id) ==
    IF satellites = <<>> THEN <<>>
    ELSE IF Head(satellites).norad_id = norad_id THEN <<Head(satellites)>>
    ELSE FirstByNorad(Tail(satellites), norad_id)

\* the "Name" branch: the selectbox holds the option at 0-based index; with no
\* option it holds None and next() raises StopIteration
SelectByName(satellites, index) ==
    IF satellites = <<>>
    THEN [raised |-> TRUE, satellite |-> Unbound, errors |-> {}]
    ELSE [raised |-> FALSE,
          satellite |-> [bound |-> TRUE,
                         value |-> FirstByName(satellites, satellites[index + 1].name)],
          errors |-> {}]

\* the "NORAD ID" branch
SelectByNorad(satellites, norad_input) ==
    IF norad_input = <<>>
    THEN [raised |-> FALSE, satellite |-> Unbound, errors |-> {}]
    ELSE LET found == FirstByNorad(satellites, Strip(norad_input))
         IN  [raised |-> FALSE,
              satellite |-> [bound |-> TRUE, value |-> found],
              errors |-> IF found # <<>> THEN {}
                         ELSE {"No satellite found with this NORAD ID"}]

\* [current_time + timedelta(seconds=i*time_interval) for i in range(num_samples)]
RequestedTimesShifted(current_time, num_samples, time_interval) ==
    [k \in 1..num_samples |-> current_time + k * time_interval]
RequestedTimes(current_time, num_samples, time_interval) ==
    [k \in 1..num_samples |-> current_time + (k - 1) * time_interval]

\* (num_samples-1) * time_interval
TotalDuration(num_samples, time_interval) == (num_samples - 1) * time_interval

\* if st.button('Track Satellite'): ...
TrackStep(sel, in, fail_at) ==
    IF ~in.pressed
    THEN [errors |-> sel.errors, call |-> <<>>, result |-> NoResult,
          outcome |-> "idle", duration |-> <<>>]
    ELSE IF ~sel.satellite.bound
    THEN [errors |-> sel.errors \cup {"Please select a satellite first"},
          call |-> <<>>, result |-> NoResult, outcome |-> "idle", duration |-> <<>>]
    ELSE LET times == RequestedTimes(in.current_time, in.num_samples, in.time_interval)
             args == [sat |-> sel.satellite.value,
                      observer_lat |-> 28, observer_lon |-> 91,
                      times |-> times, now |-> in.current_time, fail_at |-> fail_at]
             res == calculate_satellite_positions(args.sat, args.observer_lat,
                        args.observer_lon, args.times, args.now, args.fail_at)
         IN  [errors |-> sel.errors, call |-> <<args>>, result |-> res,
              outcome |-> IF res.status = "returned" THEN "tracked" ELSE res.status,
              duration |-> IF res.status = "returned"
                           THEN <<TotalDuration(in.num_samples, in.time_interval)>>
                           ELSE <<>>]

NoradInputs ==
    {<<>>, <<" ">>, <<"2", "5", "5", "4", "4">>, <<" ", "4", "0", "0", "6", "9", " ">>,
     <<"9", "9", "9", "9", "9">>}

TextBad == JoinLines(<<NameA, Line1AltSum, Line2A>>) \o <<"\n">>
AppTexts == {<<>>, TextAB, TextBad}

\* what requests.get can do on a run that fetches; a run that does not fetch
\* makes no request
FetchOutcomes(ss) ==
    IF NeedsFetch(ss) THEN {<<>>} \cup {<<t>> : t \in AppTexts} ELSE {<<>>}

WidgetValues(method, norad_input, index, pressed, num_samples, time_interval, current_time) ==
    [method |-> method, norad_input |-> norad_input, index |-> index,
     pressed |-> pressed, num_samples |-> num_samples,
     time_interval |-> time_interval, current_time |-> current_time]

\* a run that an uncaught exception ends before the button is reached
Aborted(in, exception) ==
    /\ inputs' = in
    /\ satellite' = Unbound
    /\ errors' = {}
    /\ call' = <<>>
    /\ result' = NoResult
    /\ outcome' = exception
    /\ duration' = <<>>

\* an interaction (a widget edited, the button pressed) starts a new run: the
\* page and the namespace of the run before are discarded, the session is kept
Interact ==
    /\ outcome # "none"
    /\ inputs' = NoInputs
    /\ satellite' = Unbound
    /\ errors' = {}
    /\ call' = <<>>
    /\ result' = NoResult
    /\ outcome' = "none"
    /\ duration' = <<>>
    /\ UNCHANGED <<response, fetched, session_state, fetch_calls, used_cache>>

\* one run of the script, top to bottom
Rerun ==
    /\ outcome = "none"
    /\ NeedsFetch(session_state) => fetch_calls < MaxFetches
    /\ \E fetch \in FetchOutcomes(session_state),
          method \in {"Name", "NORAD ID"},
          pressed \in BOOLEAN,
          num_samples \in 2..MaxSamples,
          time_interval \in 1..MaxInterval :
        \E f \in {FetchStep(session_state, fetch)} :
        /\ fetch_calls' = IF f.called THEN fetch_calls + 1 ELSE fetch_calls
        /\ response' = IF f.called /\ ~f.raised THEN fetch[1] ELSE response
        /\ session_state' = f.ss
        /\ used_cache' = (used_cache \/ ~f.called)
        /\ UNCHANGED fetched
        /\ IF f.raised
           THEN Aborted(WidgetValues("Name", <<>>, 0, FALSE, num_samples, time_interval, 0),
                        "ConnectionError")
           ELSE \E index \in 0..(IF method = "Name" /\ Len(f.ss.satellites) > 1
                                  THEN Len(f.ss.satellites) - 1 ELSE 0),
                   norad_input \in (IF method = "Name" THEN {<<>>} ELSE NoradInputs) :
                \E sel \in {IF method = "Name"
                            THEN SelectByName(f.ss.satellites, index)
                            ELSE SelectByNorad(f.ss.satellites, norad_input)} :
                IF sel.raised
                THEN Aborted(WidgetValues(method, norad_input, index, FALSE,
                                          num_samples, time_interval, 0),
                             "StopIteration")
                ELSE \E current_time \in (IF pressed /\ sel.satellite.bound
                                          THEN 0..MaxNow ELSE {0}),
                        fail_at \in (IF pressed /\ sel.satellite.bound
                                     THEN 0..(num_samples + 1) ELSE {0}) :
                     \E in \in {WidgetValues(method, norad_input, index, pressed,
                                             num_samples, time_interval, current_time)} :
                     \E t \in {TrackStep(sel, in, fail_at)} :
                         /\ inputs' = in
                         /\ satellite' = sel.satellite
                         /\ errors' = t.errors
                         /\ call' = t.call
                         /\ result' = t.result
                         /\ outcome' = t.outcome
                         /\ duration' = t.duration

Init ==
    /\ response = <<>>
    /\ fetched = <<>>
    /\ AppInit

Next == Interact \/ Rerun

Spec == Init /\ [][Next]_vars

(***************************************************************************)
(* Properties.                                                             *)
(***************************************************************************)

\* C3 (SpecFetch): in every record get_tle_data returns, norad_id is exactly
\* the characters at 1-indexed positions 3 to 7 of the record's line1 (those
\* of them the line has), so it is 5 characters long whenever line1 has at
\* least 7 characters.
C3_NoradIdIsColumns3To7 ==
    fetched # <<>> =>
        \A j \in 1..Len(fetched[1]) :
            LET r == fetched[1][j] IN
            /\ Len(r.norad_id) = Cardinality({k \in 3..7 : k <= Len(r.line1)})
            /\ \A k \in 3..7 : k <= Len(r.line1) => r.norad_id[k - 2] = r.line1[k]
            /\ Len(r.line1) >= 7 => Len(r.norad_id) = 5

C3_Witness ==
    /\ fetched # <<>>
    /\ \E j \in 1..Len(fetched[1]) :
           /\ fetched[1][j].line1 = Line1A
           /\ fetched[1][j].norad_id = <<"2", "5", "5", "4", "4">>
    /\ \E j \in 1..Len(fetched[1]) : Len(fetched[1][j].line1) < 7

\* the checksum rule of the element-set format: the last character of a line
\* is the sum of the line's other digits (a minus sign counting 1) modulo 10
RECURSIVE ChecksumSum(_)
ChecksumSum(s) ==
    IF s = <<>> THEN 0
    ELSE (IF Head(s) = "-" THEN 1 ELSE DigitValue(Head(s))) + ChecksumSum(Tail(s))

IsDigit(c) == c \in {"0", "1", "2", "3", "4", "5", "6", "7", "8", "9"}

AlteredChecksum(line) ==
    /\ Len(line) >= 7
    /\ IsDigit(line[Len(line)])
    /\ DigitValue(line[Len(line)]) # ChecksumSum(SubSeq(line, 1, Len(line) - 1)) % 10

\* C4 (SpecFetch): a three-line group whose line 1 carries a mismatching
\* checksum digit never becomes a satellite record with a catalog identifier.
C4_AlteredChecksumRejected ==
    fetched # <<>> =>
        \A j \in 1..Len(fetched[1]) : ~AlteredChecksum(fetched[1][j].line1)

C1_OnePositionPerInstantInOrder ==
    (/\ result.status # "none"
     /\ call[1].sat # <<>>
     /\ Len(call[1].times) >= 1
     /\ call[1].fail_at > Len(call[1].times))
    => /\ result.status = "returned"
       /\ Len(result.value[1]) = Len(call[1].times)
       /\ \A i \in 1..Len(call[1].times) : result.value[1][i].time = call[1].times[i]

C1_Witness ==
    /\ result.status = "returned"
    /\ call[1].times = <<2, 0, 1>>
    /\ Len(result.value[1]) = 3

\* C2 (SpecCalc): when the computation for the k-th instant fails, the call
\* raises: compute was called k times and no more, and no list (partial or
\* patched) is returned.
C2_FailFast ==
    (/\ result.status # "none"
     /\ call[1].sat # <<>>
     /\ call[1].fail_at \in 1..Len(call[1].times))
    => /\ result.status = "ComputeError"
       /\ result.value = <<>>
       /\ result.computed = call[1].fail_at

C2_Witness ==
    /\ result.status = "ComputeError"
    /\ Len(call[1].times) = 3
    /\ call[1].fail_at = 2

\* the position ephem gives for the record's elements at instant t
PositionAt(sat, t) ==
    [time |-> t,
     lat |-> NpDegrees(EphemSublat(sat, t)),
     lon |-> NpDegrees(EphemSublong(sat, t))]

\* C6 (SpecCalc): every position of a returned list is the position of the
\* record's elements at that position's own instant, whatever instants come
\* before or after it in the list.
C6_PositionDependsOnElementsAndInstant ==
    result.status = "returned" =>
        \A i \in 1..Len(call[1].times) :
            result.value[1][i] = PositionAt(call[1].sat[1], call[1].times[i])

C6_Witness ==
    /\ result.status = "returned"
    /\ call[1].times = <<1, 0, 1>>
    /\ result.value[1][1] = result.value[1][3]
    /\ result.value[1][1] # result.value[1][2]

\* no record of the stored catalog has the entered NORAD ID
NothingSelected ==
    \/ inputs.norad_input = <<>>
    \/ \A j \in 1..Len(session_state.satellites) :
           session_state.satellites[j].norad_id # Strip(inputs.norad_input)

\* C7 (Spec): a run in NORAD ID mode that reaches a pressed 'Track Satellite'
\* with nothing selected reports 'Please select a satellite first' and does
\* not call calculate_satellite_positions with None.
C7_NoSelectionIsReported ==
    (/\ "satellites" \in DOMAIN session_state
     /\ inputs.pressed
     /\ inputs.method = "NORAD ID"
     /\ NothingSelected)
    => /\ "Please select a satellite first" \in errors
       /\ ~(call # <<>> /\ call[1].sat = <<>>)

\* C9 (Spec): a 'Track Satellite' that reaches the computation asks for
\* num_samples instants, the i-th (from 0) being current_time +
\* i*time_interval: strictly increasing, and spanning the total duration
\* (num_samples-1)*time_interval that the run writes.
C9_RequestedInstants ==
    call # <<>> =>
        LET t == call[1].times
            n == inputs.num_samples
        IN  /\ Len(t) = n
            /\ \A i \in 0..(n - 1) :
                   t[i + 1] = inputs.current_time + i * inputs.time_interval
            /\ \A i \in 1..n : \A j \in 1..n : i < j => t[i] < t[j]
            /\ t[n] - t[1] = (n - 1) * inputs.time_interval
            /\ duration # <<>> => duration[1] = t[n] - t[1]

C9_Witness ==
    /\ call # <<>>
    /\ inputs.num_samples = 3
    /\ inputs.time_interval = 2
    /\ inputs.current_time = 1
    /\ duration = <<4>>

\* C10 as stated (Spec): get_tle_data is called at most once in a session.
C10_AtMostOneFetch == fetch_calls <= 1

\* C10 amended (Spec): a run calls get_tle_data exactly when the session
\* holds no 'satellites' entry, so the call returns at most once in a session
\* and is made again after every fetch that raised; once the entry is there
\* no step changes it or fetches again; a fetch that raises leaves the
\* session without the entry.
C10_FetchOnlyWhileUncached ==
    [][/\ "satellites" \in DOMAIN session_state
          => /\ session_state' = session_state
             /\ fetch_calls' = fetch_calls
       /\ outcome # "none"
          => /\ session_state' = session_state
             /\ fetch_calls' = fetch_calls
       /\ (outcome = "none" /\ "satellites" \notin DOMAIN session_state)
          => /\ fetch_calls' = fetch_calls + 1
             /\ outcome' = "ConnectionError" <=> "satellites" \notin DOMAIN session_state'
             /\ "satellites" \in DOMAIN session_state'
                => session_state'.satellites = get_tle_data(response')]_vars

C10_Witness ==
    /\ fetch_calls = 2
    /\ "satellites" \in DOMAIN session_state
    /\ session_state.satellites = get_tle_data(response)
    /\ used_cache
    /\ outcome = "tracked"

====
